---------------------------- MODULE Spec2Model ----------------------------
(***************************************************************************)
(* Model of pkg/multicluster/target.go: building a GatewayTarget from a    *)
(* Gateway, its ClusterGateways and a LoadBalancingSpec (geo and weight    *)
(* resolution per cluster gateway), grouping the targets by geo, and the   *)
(* base-36 short codes.                                                    *)
(***************************************************************************)
EXTENDS Integers, Sequences, FiniteSets, TLC

VARIABLES
    pc,               \* position of the caller
    clusterGateways,  \* argument of NewGatewayTarget: sequence of ClusterGateway
    loadBalancing,    \* argument of NewGatewayTarget: *LoadBalancingSpec
    mcg,              \* the GatewayTarget built by NewGatewayTarget
    cgTargets,        \* local of setClusterGatewayTargets
    idx,              \* loop position of setClusterGatewayTargets (1-based)
    err,              \* error returned by NewGatewayTarget ("nil" for none)
    geoTargets,       \* result of GroupTargetsByGeo
    gateway,          \* argument of NewGatewayTarget: the Gateway
    s,                \* argument of ToBase36HashLen: the string
    l,                \* argument of ToBase36HashLen: the length
    ret               \* what a short-code call did: the string returned, or a panic

vars == <<pc, clusterGateways, loadBalancing, mcg, cgTargets, idx, err, geoTargets,
          gateway, s, l, ret>>

-----------------------------------------------------------------------------
(* Bounds of the model *)

\* longest list of cluster gateways handed to NewGatewayTarget
MaxGateways == 3

\* longest weighted.custom sequence of a policy
MaxCustom == 2

\* largest length asked of ToBase36HashLen
MaxLength == 45

-----------------------------------------------------------------------------
(* Constants of the program *)

LabelLBAttributeGeoCode == "kuadrant.io/lb-attribute-geo-code"

\* v1alpha1.DefaultGeo
DefaultGeo == "default"

\* v1alpha1.DefaultWeight
DefaultWeight == 120

NoError == "nil"

-----------------------------------------------------------------------------
(* Data model *)

\* Go pointers to a value: nil, or a reference to val
NilPtr == [isNil |-> TRUE, val |-> 0]
NilGeoPtr == [isNil |-> TRUE, val |-> ""]
Ptr(v) == [isNil |-> FALSE, val |-> v]

NoLabels == [k \in {} |-> ""]

\* Go strings that are formatted or hashed are sequences of characters; labels,
\* geo codes and errors, which are only compared, are strings

\* the Gateway: its name and namespace
Gateway(name, namespace) == [Name |-> name, Namespace |-> namespace]

Gateways ==
    { Gateway(n, <<"n", "s">>) : n \in { <<"g", "w">>, <<"g", "w", "3", "5", "6">>, <<"g", "w", "1", "3", "2", "8", "1", "1">> } }

\* ClusterGateway: a Gateway (namespace, name, labels) placed on a cluster
ClusterGateway(cluster, labels) ==
    [ClusterName |-> cluster, Namespace |-> <<"n", "s">>, Name |-> <<"g", "w">>,
     Labels |-> labels]

ClusterGateways ==
    { ClusterGateway(<<"c", "1">>, (LabelLBAttributeGeoCode :> "US") @@ ("tier" :> "premium")),
      ClusterGateway(<<"c", "2">>, NoLabels),
      ClusterGateway(<<"c", "3">>, (LabelLBAttributeGeoCode :> "US")),
      ClusterGateway(<<"c", "4">>, (LabelLBAttributeGeoCode :> "default") @@ ("tier" :> "basic")) }

GetLabels(cg) == cg.Labels

\* metav1.LabelSelectorRequirement
Requirement(key, op, vals) == [Key |-> key, Operator |-> op, Values |-> vals]

\* *metav1.LabelSelector
NilSelector == [isNil |-> TRUE, MatchLabels |-> NoLabels, MatchExpressions |-> <<>>]
Selector(matchLabels, matchExpressions) ==
    [isNil |-> FALSE, MatchLabels |-> matchLabels, MatchExpressions |-> matchExpressions]

\* v1alpha1.CustomWeight. The overrides of a policy are non-nil, their weights
\* are not negative, and their label keys and values are well-formed labels:
\* a selector is malformed by its operator or by the number of its values.
CustomWeight(selector, weight) == [Selector |-> selector, Weight |-> weight]

CustomWeights ==
    { CustomWeight(Selector(("tier" :> "premium"), <<>>), 200),
      CustomWeight(Selector(NoLabels, <<>>), 50),
      CustomWeight(NilSelector, 70),
      CustomWeight(Selector(NoLabels,
                     <<Requirement(LabelLBAttributeGeoCode, "Exists", {})>>), 0),
      CustomWeight(Selector(NoLabels, <<Requirement("tier", "Bogus", {"premium"})>>), 10),
      CustomWeight(Selector(NoLabels, <<Requirement("tier", "In", {})>>), 30) }

SeqsUpTo(S, n) == UNION { [1..k -> S] : k \in 0..n }

\* *v1alpha1.LoadBalancingGeo
NilGeo == [isNil |-> TRUE, DefaultGeo |-> ""]
Geos == { NilGeo } \cup { [isNil |-> FALSE, DefaultGeo |-> g] : g \in {DefaultGeo, "EU"} }

\* *v1alpha1.LoadBalancingWeighted
NilWeighted == [isNil |-> TRUE, DefaultWeight |-> 0, Custom |-> <<>>]
Weighteds ==
    { NilWeighted } \cup
    { [isNil |-> FALSE, DefaultWeight |-> w, Custom |-> c] :
        w \in {0, 100}, c \in SeqsUpTo(CustomWeights, MaxCustom) }

\* *v1alpha1.LoadBalancingSpec
NilLoadBalancing == [isNil |-> TRUE, Geo |-> NilGeo, Weighted |-> NilWeighted]
LoadBalancingSpecs ==
    { NilLoadBalancing } \cup
    { [isNil |-> FALSE, Geo |-> g, Weighted |-> w] : g \in Geos, w \in Weighteds }

\* GatewayTarget
GatewayTarget(gw, targets, lb) ==
    [Gateway |-> gw, ClusterGatewayTargets |-> targets, LoadBalancing |-> lb]

\* ClusterGatewayTarget
ClusterGatewayTarget(cg, geo, weight) ==
    [ClusterGateway |-> cg, Geo |-> geo, Weight |-> weight]

-----------------------------------------------------------------------------
(* Label selectors (k8s.io/apimachinery), as called from setWeight *)

\* labels.NewRequirement: the operator decides how many values are legal
NewRequirementError(op, vals) ==
    CASE op \in {"In", "NotIn"} ->
           IF Cardinality(vals) = 0 THEN "values must be non-empty" ELSE NoError
      [] op = "Equals" ->
           IF Cardinality(vals) # 1 THEN "exact-match needs one value" ELSE NoError
      [] op \in {"Exists", "DoesNotExist"} ->
           IF Cardinality(vals) # 0 THEN "values must be empty" ELSE NoError
      [] OTHER -> "operator not recognized"

\* metav1.LabelSelectorAsSelector: the requirements of a selector, or an error
RECURSIVE ExpressionsError(_, _)
ExpressionsError(exprs, i) ==
    IF i > Len(exprs) THEN NoError
    ELSE LET expr == exprs[i] IN
         IF expr.Operator \notin {"In", "NotIn", "Exists", "DoesNotExist"}
         THEN "not a valid label selector operator"
         ELSE IF NewRequirementError(expr.Operator, expr.Values) # NoError
              THEN NewRequirementError(expr.Operator, expr.Values)
              ELSE ExpressionsError(exprs, i + 1)

LabelSelectorAsSelector(ps) ==
    IF ps.isNil
    THEN [err |-> NoError, kind |-> "nothing", reqs |-> {}]
    ELSE IF Cardinality(DOMAIN ps.MatchLabels) + Len(ps.MatchExpressions) = 0
    THEN [err |-> NoError, kind |-> "everything", reqs |-> {}]
    ELSE IF ExpressionsError(ps.MatchExpressions, 1) # NoError
    THEN [err |-> ExpressionsError(ps.MatchExpressions, 1), kind |-> "nothing", reqs |-> {}]
    ELSE [err |-> NoError, kind |-> "requirements",
          reqs |-> { Requirement(k, "Equals", {ps.MatchLabels[k]}) : k \in DOMAIN ps.MatchLabels }
                   \cup { ps.MatchExpressions[i] : i \in 1..Len(ps.MatchExpressions) }]

\* labels.Requirement.Matches
RequirementMatches(r, ls) ==
    CASE r.Operator \in {"In", "Equals"} ->
           r.Key \in DOMAIN ls /\ ls[r.Key] \in r.Values
      [] r.Operator = "NotIn" ->
           r.Key \notin DOMAIN ls \/ ls[r.Key] \notin r.Values
      [] r.Operator = "Exists" -> r.Key \in DOMAIN ls
      [] r.Operator = "DoesNotExist" -> r.Key \notin DOMAIN ls
      [] OTHER -> FALSE

\* labels.Selector.Matches: Nothing matches no label set, Everything all of
\* them, a list of requirements the label sets that satisfy each of them
SelectorMatches(selector, ls) ==
    CASE selector.kind = "nothing" -> FALSE
      [] selector.kind = "everything" -> TRUE
      [] OTHER -> \A r \in selector.reqs : RequirementMatches(r, ls)

-----------------------------------------------------------------------------
(* Geo and weight resolution of one cluster gateway *)

\* int(x) of a v1alpha1.Weight: both are Go ints, the conversion keeps the value
IntOfWeight(w) == w

GetDefaultGeo(t) ==
    IF ~t.LoadBalancing.isNil /\ ~t.LoadBalancing.Geo.isNil
    THEN t.LoadBalancing.Geo.DefaultGeo
    ELSE DefaultGeo

\* GetDefaultWeight with -1 standing for "no weight configured"
GetDefaultWeight_Unset(t) ==
    IF ~t.LoadBalancing.isNil /\ ~t.LoadBalancing.Weighted.isNil
    THEN IntOfWeight(t.LoadBalancing.Weighted.DefaultWeight)
    ELSE -1

GetDefaultWeight(t) ==
    IF ~t.LoadBalancing.isNil /\ ~t.LoadBalancing.Weighted.isNil
    THEN IntOfWeight(t.LoadBalancing.Weighted.DefaultWeight)
    ELSE IntOfWeight(DefaultWeight)

\* setGeo without the return of line 121: the label is consulted always
setGeo_NoShortCircuit(cg, defaultGeo) ==
    IF LabelLBAttributeGeoCode \in DOMAIN GetLabels(cg)
    THEN Ptr(GetLabels(cg)[LabelLBAttributeGeoCode])
    ELSE Ptr(defaultGeo)

\* setGeo without the label lookup of lines 123-125
setGeo_IgnoresLabel(cg, defaultGeo) == Ptr(defaultGeo)

\* ClusterGatewayTarget.setGeo: the value t.Geo points to afterwards
setGeo(cg, defaultGeo) ==
    IF defaultGeo = DefaultGeo
    THEN Ptr(defaultGeo)
    ELSE IF LabelLBAttributeGeoCode \in DOMAIN GetLabels(cg)
         THEN Ptr(GetLabels(cg)[LabelLBAttributeGeoCode])
         ELSE Ptr(defaultGeo)

\* setWeight that skips an override whose selector does not parse
RECURSIVE setWeightFrom_SkipMalformed(_, _, _, _)
setWeightFrom_SkipMalformed(cg, defaultWeight, customWeights, k) ==
    IF k > Len(customWeights)
    THEN [err |-> NoError, Weight |-> Ptr(defaultWeight)]
    ELSE LET cw == customWeights[k]
             selector == LabelSelectorAsSelector(cw.Selector)
         IN IF selector.err = NoError /\ SelectorMatches(selector, GetLabels(cg))
            THEN [err |-> NoError, Weight |-> Ptr(IntOfWeight(cw.Weight))]
            ELSE setWeightFrom_SkipMalformed(cg, defaultWeight, customWeights, k + 1)

\* setWeight without the break of line 140: the last matching override wins
RECURSIVE setWeightFrom_LastMatch(_, _, _, _)
setWeightFrom_LastMatch(cg, defaultWeight, customWeights, k) ==
    IF k > Len(customWeights)
    THEN [err |-> NoError, Weight |-> Ptr(defaultWeight)]
    ELSE LET cw == customWeights[k]
             selector == LabelSelectorAsSelector(cw.Selector)
         IN IF selector.err # NoError
            THEN [err |-> selector.err, Weight |-> NilPtr]
            ELSE IF SelectorMatches(selector, GetLabels(cg))
                 THEN setWeightFrom_LastMatch(cg, IntOfWeight(cw.Weight), customWeights, k + 1)
                 ELSE setWeightFrom_LastMatch(cg, defaultWeight, customWeights, k + 1)

\* ClusterGatewayTarget.setWeight, from override k on: the error returned and
\* the value t.Weight points to afterwards (nil when an error is returned)
RECURSIVE setWeightFrom(_, _, _, _)
setWeightFrom(cg, defaultWeight, customWeights, k) ==
    IF k > Len(customWeights)
    THEN [err |-> NoError, Weight |-> Ptr(defaultWeight)]
    ELSE LET cw == customWeights[k]
             selector == LabelSelectorAsSelector(cw.Selector)
         IN IF selector.err # NoError
            THEN [err |-> selector.err, Weight |-> NilPtr]
            ELSE IF SelectorMatches(selector, GetLabels(cg))
                 THEN [err |-> NoError, Weight |-> Ptr(IntOfWeight(cw.Weight))]
                 ELSE setWeightFrom(cg, defaultWeight, customWeights, k + 1)

setWeight(cg, defaultWeight, customWeights) ==
    setWeightFrom(cg, defaultWeight, customWeights, 1)

\* NewClusterGatewayTarget without the call of setGeo of line 93
NewClusterGatewayTarget_NoSetGeo(cg, defaultGeoCode, defaultWeight, customWeights) ==
    LET w == setWeight(cg, defaultWeight, customWeights)
    IN IF w.err # NoError
       THEN [target |-> ClusterGatewayTarget(cg, NilGeoPtr, NilPtr), err |-> w.err]
       ELSE [target |-> ClusterGatewayTarget(cg, NilGeoPtr, w.Weight), err |-> NoError]

\* NewClusterGatewayTarget: the target and the error it returns
NewClusterGatewayTarget(cg, defaultGeoCode, defaultWeight, customWeights) ==
    LET geo == setGeo(cg, defaultGeoCode)
        w == setWeight(cg, defaultWeight, customWeights)
    IN IF w.err # NoError
       THEN [target |-> ClusterGatewayTarget(cg, NilGeoPtr, NilPtr), err |-> w.err]
       ELSE [target |-> ClusterGatewayTarget(cg, geo, w.Weight), err |-> NoError]

GetGeo(t) == t.Geo.val

GetWeight(t) == t.Weight.val

-----------------------------------------------------------------------------
(* Grouping *)

\* GroupTargetsByGeo that assigns the bucket instead of appending to it
RECURSIVE GroupFrom_Overwrite(_, _, _)
GroupFrom_Overwrite(targets, i, m) ==
    IF i > Len(targets) THEN m
    ELSE LET target == targets[i]
             g == GetGeo(target)
         IN GroupFrom_Overwrite(targets, i + 1,
                IF g \in DOMAIN m
                THEN [m EXCEPT ![g] = <<target>>]
                ELSE m @@ (g :> <<target>>))

\* GroupTargetsByGeo, from target i on, geoTargets being the map built so far
RECURSIVE GroupFrom(_, _, _)
GroupFrom(targets, i, m) ==
    IF i > Len(targets) THEN m
    ELSE LET target == targets[i]
             g == GetGeo(target)
         IN GroupFrom(targets, i + 1,
                IF g \in DOMAIN m
                THEN [m EXCEPT ![g] = Append(@, target)]
                ELSE m @@ (g :> <<target>>))

GroupTargetsByGeoOf(t) == GroupFrom(t.ClusterGatewayTargets, 1, NoLabels)

-----------------------------------------------------------------------------
(* Short codes *)

\* no short-code call has returned
NoReturn == [panic |-> FALSE, val |-> <<>>]

\* sha256.Sum224 on the strings of the model: each string with the 28 bytes of
\* its SHA-224 digest
Sum224Table ==
  {
    \* empty string
    << <<>>,
       <<209, 74, 2, 140, 42, 58, 43, 201, 71, 97, 2, 187, 40, 130, 52, 196, 21, 162, 176, 31, 130, 142, 166, 42, 197, 179, 228, 47>> >>,
    \* myname
    << <<"m", "y", "n", "a", "m", "e">>,
       <<177, 20, 59, 203, 84, 169, 43, 98, 196, 117, 246, 109, 155, 91, 183, 61, 145, 53, 234, 247, 241, 19, 80, 214, 34, 144, 121, 144>> >>,
    \* gw-ns
    << <<"g", "w", "-", "n", "s">>,
       <<176, 125, 104, 163, 126, 146, 26, 60, 130, 198, 254, 60, 61, 209, 46, 61, 45, 118, 130, 190, 123, 224, 248, 243, 200, 183, 174, 67>> >>,
    \* ns-gw
    << <<"n", "s", "-", "g", "w">>,
       <<87, 218, 107, 74, 72, 154, 106, 15, 188, 188, 32, 234, 227, 205, 201, 175, 140, 121, 155, 253, 73, 61, 163, 253, 145, 56, 209, 185>> >>,
    \* gw356-ns
    << <<"g", "w", "3", "5", "6", "-", "n", "s">>,
       <<0, 45, 145, 22, 68, 156, 178, 81, 22, 104, 12, 77, 210, 111, 42, 77, 145, 150, 49, 167, 176, 247, 178, 78, 71, 148, 166, 147>> >>,
    \* gw132811-ns
    << <<"g", "w", "1", "3", "2", "8", "1", "1", "-", "n", "s">>,
       <<0, 0, 203, 242, 17, 201, 11, 138, 199, 253, 10, 8, 219, 160, 225, 177, 230, 232, 183, 157, 55, 170, 70, 190, 233, 41, 30, 159>> >>,
    \* gw5075499-ns
    << <<"g", "w", "5", "0", "7", "5", "4", "9", "9", "-", "n", "s">>,
       <<0, 0, 0, 125, 48, 15, 64, 187, 37, 123, 181, 187, 8, 239, 207, 170, 106, 28, 53, 208, 201, 130, 18, 204, 82, 232, 91, 88>> >>
  }

HashInputs == { e[1] : e \in Sum224Table }

Sum224(str) == (CHOOSE e \in Sum224Table : e[1] = str)[2]

\* the digits of base36.EncodeBytes, and what strings.ToLower makes of them
Base36Digits ==
    << "0", "1", "2", "3", "4", "5", "6", "7", "8", "9", "A", "B", "C", "D", "E", "F",
       "G", "H", "I", "J", "K", "L", "M", "N", "O", "P", "Q", "R", "S", "T", "U", "V",
       "W", "X", "Y", "Z" >>

LowerDigits ==
    << "0", "1", "2", "3", "4", "5", "6", "7", "8", "9", "a", "b", "c", "d", "e", "f",
       "g", "h", "i", "j", "k", "l", "m", "n", "o", "p", "q", "r", "s", "t", "u", "v",
       "w", "x", "y", "z" >>

\* strings.ToLower on a string of base-36 digits
ToLower(str) ==
    [i \in 1..Len(str) |->
        LowerDigits[CHOOSE d \in 1..Len(Base36Digits) : Base36Digits[d] = str[i]]]

\* big.Int.DivMod(x, 36) on the big-endian bytes of x, from byte i on: the
\* bytes of the quotient and the remainder
RECURSIVE DivMod36(_, _, _, _)
DivMod36(b, i, q, r) ==
    IF i > Len(b) THEN [q |-> q, r |-> r]
    ELSE LET cur == r * 256 + b[i]
         IN DivMod36(b, i + 1, Append(q, cur \div 36), cur % 36)

IsZero(b) == \A i \in 1..Len(b) : b[i] = 0

\* the first loop of base36.EncodeBytes: the digits of x, lowest first
RECURSIVE DigitsOf(_)
DigitsOf(x) ==
    IF IsZero(x) THEN <<>>
    ELSE LET qr == DivMod36(x, 1, <<>>, 0)
         IN <<Base36Digits[qr.r + 1]>> \o DigitsOf(qr.q)

\* the second loop of base36.EncodeBytes: one "0" for each leading zero byte
RECURSIVE LeadingZeros(_, _)
LeadingZeros(b, i) ==
    IF i > Len(b) \/ b[i] # 0 THEN <<>>
    ELSE <<Base36Digits[1]>> \o LeadingZeros(b, i + 1)

Reverse(str) == [i \in 1..Len(str) |-> str[Len(str) + 1 - i]]

\* base36.EncodeBytes
EncodeBytes(b) == Reverse(DigitsOf(b) \o LeadingZeros(b, 1))

ToBase36Hash(str) == ToLower(EncodeBytes(Sum224(str)))

\* ToBase36HashLen with the slice bounds swapped by one
ToBase36HashLen_OffByOne(str, len) ==
    LET hash == ToBase36Hash(str)
    IN IF len - 1 < 0 \/ len - 1 > Len(hash)
       THEN [panic |-> TRUE, val |-> <<>>]
       ELSE [panic |-> FALSE, val |-> SubSeq(hash, 1, len - 1)]

\* ToBase36HashLen: the slice expression [:l] panics unless 0 <= l <= len
ToBase36HashLen(str, len) ==
    LET hash == ToBase36Hash(str)
    IN IF len < 0 \/ len > Len(hash)
       THEN [panic |-> TRUE, val |-> <<>>]
       ELSE [panic |-> FALSE, val |-> SubSeq(hash, 1, len)]

\* GatewayTarget.GetName
GetName(t) == t.Gateway.Name \o <<"-">> \o t.Gateway.Namespace

\* GatewayTarget.GetShortCode
GetShortCode(t) == ToBase36HashLen(GetName(t), 7)

\* ClusterGatewayTarget.GetShortCode
ClusterGetShortCode(t) ==
    LET hash == ToBase36HashLen(t.ClusterGateway.Namespace \o <<"-">> \o t.ClusterGateway.Name, 7)
    IN [panic |-> hash.panic,
        val |-> IF hash.panic THEN <<>>
                ELSE t.ClusterGateway.ClusterName \o <<"-">> \o hash.val]

\* the lengths asked of ToBase36HashLen
Lengths == (-1)..MaxLength

\* a GatewayTarget of one cluster gateway and no policy, a string and a length
InitShortCode ==
    /\ pc = "call"
    /\ gateway \in Gateways
    /\ clusterGateways \in [1..1 -> { cg \in ClusterGateways : "tier" \notin DOMAIN cg.Labels }]
    /\ loadBalancing = NilLoadBalancing
    /\ mcg = GatewayTarget(gateway,
                 <<NewClusterGatewayTarget(clusterGateways[1], DefaultGeo, DefaultWeight,
                                           <<>>).target>>,
                 loadBalancing)
    /\ cgTargets = mcg.ClusterGatewayTargets
    /\ idx = 2
    /\ err = NoError
    /\ geoTargets = NoLabels
    /\ s \in HashInputs
    /\ l \in Lengths
    /\ ret = NoReturn

CallToBase36HashLen ==
    /\ pc = "call"
    /\ ret' = ToBase36HashLen(s, l)
    /\ pc' = "ToBase36HashLen"
    /\ UNCHANGED <<clusterGateways, loadBalancing, mcg, cgTargets, idx, err, geoTargets,
                   gateway, s, l>>

CallGetShortCode ==
    /\ pc = "call"
    /\ ret' = GetShortCode(mcg)
    /\ pc' = "GetShortCode"
    /\ UNCHANGED <<clusterGateways, loadBalancing, mcg, cgTargets, idx, err, geoTargets,
                   gateway, s, l>>

CallClusterGetShortCode ==
    /\ pc = "call"
    /\ ret' = ClusterGetShortCode(mcg.ClusterGatewayTargets[1])
    /\ pc' = "ClusterGetShortCode"
    /\ UNCHANGED <<clusterGateways, loadBalancing, mcg, cgTargets, idx, err, geoTargets,
                   gateway, s, l>>

NextShortCode ==
    \/ CallToBase36HashLen
    \/ CallGetShortCode
    \/ CallClusterGetShortCode

SpecShortCode == InitShortCode /\ [][NextShortCode]_vars

-----------------------------------------------------------------------------
(* The caller: NewGatewayTarget, then GroupTargetsByGeo on what it returned *)

Init ==
    /\ pc = "start"
    /\ clusterGateways \in SeqsUpTo(ClusterGateways, MaxGateways)
    /\ loadBalancing \in LoadBalancingSpecs
    /\ gateway = Gateway(<<"g", "w">>, <<"n", "s">>)
    /\ mcg = GatewayTarget(gateway, <<>>, NilLoadBalancing)
    /\ cgTargets = <<>>
    /\ idx = 1
    /\ err = NoError
    /\ geoTargets = NoLabels
    /\ s = <<>>
    /\ l = 0
    /\ ret = NoReturn

\* NewGatewayTarget up to its call of setClusterGatewayTargets, which starts
\* with an empty cgTargets
NewGatewayTarget ==
    /\ pc = "start"
    /\ mcg' = GatewayTarget(gateway, <<>>, loadBalancing)
    /\ cgTargets' = <<>>
    /\ idx' = 1
    /\ pc' = "loop"
    /\ UNCHANGED <<clusterGateways, loadBalancing, err, geoTargets, gateway, s, l, ret>>

\* the loop appending to t.ClusterGatewayTargets itself instead of to cgTargets
ResolveClusterGateway_StoresEach ==
    /\ pc = "loop"
    /\ idx <= Len(clusterGateways)
    /\ LET cg == clusterGateways[idx]
           customWeights ==
               IF ~mcg.LoadBalancing.isNil /\ ~mcg.LoadBalancing.Weighted.isNil
               THEN mcg.LoadBalancing.Weighted.Custom
               ELSE <<>>
           r == NewClusterGatewayTarget(cg, GetDefaultGeo(mcg), GetDefaultWeight(mcg),
                                        customWeights)
       IN IF r.err # NoError
          THEN /\ err' = r.err
               /\ pc' = "returned"
               /\ UNCHANGED <<cgTargets, idx, mcg>>
          ELSE /\ cgTargets' = Append(cgTargets, r.target)
               /\ mcg' = [mcg EXCEPT !.ClusterGatewayTargets = Append(@, r.target)]
               /\ idx' = idx + 1
               /\ UNCHANGED <<err, pc>>
    /\ UNCHANGED <<clusterGateways, loadBalancing, geoTargets, gateway, s, l, ret>>

\* one iteration of the loop of setClusterGatewayTargets
ResolveClusterGateway ==
    /\ pc = "loop"
    /\ idx <= Len(clusterGateways)
    /\ LET cg == clusterGateways[idx]
           customWeights ==
               IF ~mcg.LoadBalancing.isNil /\ ~mcg.LoadBalancing.Weighted.isNil
               THEN mcg.LoadBalancing.Weighted.Custom
               ELSE <<>>
           r == NewClusterGatewayTarget(cg, GetDefaultGeo(mcg), GetDefaultWeight(mcg),
                                        customWeights)
       IN IF r.err # NoError
          THEN /\ err' = r.err
               /\ pc' = "returned"
               /\ UNCHANGED <<cgTargets, idx>>
          ELSE /\ cgTargets' = Append(cgTargets, r.target)
               /\ idx' = idx + 1
               /\ UNCHANGED <<err, pc>>
    /\ UNCHANGED <<clusterGateways, loadBalancing, mcg, geoTargets, gateway, s, l, ret>>

\* every target holding the address of the one loop variable: all of them
\* wrap the cluster gateway the loop saw last
StoreClusterGatewayTargets_Aliased ==
    /\ pc = "loop"
    /\ idx > Len(clusterGateways)
    /\ mcg' = [mcg EXCEPT !.ClusterGatewayTargets =
                 [i \in 1..Len(cgTargets) |->
                    [cgTargets[i] EXCEPT
                       !.ClusterGateway = clusterGateways[Len(clusterGateways)]]]]
    /\ err' = NoError
    /\ pc' = "returned"
    /\ UNCHANGED <<clusterGateways, loadBalancing, cgTargets, idx, geoTargets, gateway, s, l, ret>>

\* the selectors of the policy parsed once, after the loop, whatever the
\* cluster gateways are
StoreClusterGatewayTargets_Validates ==
    /\ pc = "loop"
    /\ idx > Len(clusterGateways)
    /\ LET customWeights == mcg.LoadBalancing.Weighted.Custom
           bad == { k \in 1..Len(customWeights) :
                      LabelSelectorAsSelector(customWeights[k].Selector).err # NoError }
       IN IF bad # {}
          THEN /\ err' = "selector does not parse"
               /\ UNCHANGED mcg
          ELSE /\ err' = NoError
               /\ mcg' = [mcg EXCEPT !.ClusterGatewayTargets = cgTargets]
    /\ pc' = "returned"
    /\ UNCHANGED <<clusterGateways, loadBalancing, cgTargets, idx, geoTargets, gateway, s, l, ret>>

\* the end of the loop: the list is stored and NewGatewayTarget returns
StoreClusterGatewayTargets ==
    /\ pc = "loop"
    /\ idx > Len(clusterGateways)
    /\ mcg' = [mcg EXCEPT !.ClusterGatewayTargets = cgTargets]
    /\ err' = NoError
    /\ pc' = "returned"
    /\ UNCHANGED <<clusterGateways, loadBalancing, cgTargets, idx, geoTargets, gateway, s, l, ret>>

GroupTargetsByGeo ==
    /\ pc = "returned"
    /\ geoTargets' = GroupTargetsByGeoOf(mcg)
    /\ pc' = "grouped"
    /\ UNCHANGED <<clusterGateways, loadBalancing, mcg, cgTargets, idx, err, gateway, s, l, ret>>

Next ==
    \/ NewGatewayTarget
    \/ ResolveClusterGateway
    \/ StoreClusterGatewayTargets
    \/ GroupTargetsByGeo

Spec == Init /\ [][Next]_vars

-----------------------------------------------------------------------------
(* Vocabulary of the properties *)

\* NewGatewayTarget has returned to its caller
Returned == pc \in {"returned", "grouped"}

Succeeded == Returned /\ err = NoError

Failed == Returned /\ err # NoError

\* the weighted.custom sequence of the policy, empty when there is none
CustomOf(lb) == IF ~lb.isNil /\ ~lb.Weighted.isNil THEN lb.Weighted.Custom ELSE <<>>

Malformed(cw) == LabelSelectorAsSelector(cw.Selector).err # NoError

Satisfies(cg, cw) ==
    /\ ~Malformed(cw)
    /\ SelectorMatches(LabelSelectorAsSelector(cw.Selector), GetLabels(cg))

HasMalformed(lb) == \E k \in 1..Len(CustomOf(lb)) : Malformed(CustomOf(lb)[k])

\* cg satisfies none of the overrides that precede some malformed one
ReachesMalformed(cg, custom) ==
    \E k \in 1..Len(custom) :
        /\ Malformed(custom[k])
        /\ \A j \in 1..(k - 1) : ~Malformed(custom[j]) /\ ~Satisfies(cg, custom[j])

\* the positions of the overrides cg satisfies
Matching(cg, custom) == { k \in 1..Len(custom) : Satisfies(cg, custom[k]) }

Min(S) == CHOOSE x \in S : \A y \in S : x <= y

Targets == mcg.ClusterGatewayTargets

-----------------------------------------------------------------------------
(* C1 *)

\* C1 as stated: whenever the policy's weighted.custom holds a malformed
\* selector, at any position, NewGatewayTarget returns an error for every list
\* of cluster gateways.
C1_AnyMalformedFails == (Returned /\ HasMalformed(loadBalancing)) => err # NoError

\* The same with at least one cluster gateway: it fails too, when every cluster
\* gateway satisfies an override that precedes the malformed one.
C1_AnyMalformedFailsNonEmpty ==
    (Returned /\ HasMalformed(loadBalancing) /\ Len(clusterGateways) > 0) => err # NoError

\* C1 (amended): NewGatewayTarget returns an error exactly when some cluster
\* gateway of the list satisfies none of the overrides that precede a malformed
\* one, so that the loop of setWeight parses the malformed selector; cluster
\* gateways resolved before that one do not prevent the error.
C1_MalformedReachedFails ==
    Returned =>
        (err # NoError <=>
            \E i \in 1..Len(clusterGateways) :
                ReachesMalformed(clusterGateways[i], CustomOf(loadBalancing)))

\* an error from a malformed second override, after a first cluster gateway
\* was resolved
C1_Witness ==
    /\ Failed
    /\ Len(cgTargets) >= 1
    /\ Len(CustomOf(loadBalancing)) = 2
    /\ ~Malformed(CustomOf(loadBalancing)[1])
    /\ Malformed(CustomOf(loadBalancing)[2])

-----------------------------------------------------------------------------
(* C2 *)

\* C2: when NewGatewayTarget returns an error because weight resolution failed
\* for the k-th cluster gateway, the GatewayTarget handed back holds no target
\* at all: the k-1 targets resolved before the failure are in no list (and in
\* no geo bucket) the caller can reach.
C2_NoPartialTargets ==
    Failed =>
        /\ Targets = <<>>
        /\ (Len(cgTargets) > 0 => Targets # cgTargets)
        /\ (pc = "grouped" => DOMAIN geoTargets = {})

\* the failure came at the third cluster gateway, after two were resolved
C2_Witness == Failed /\ idx = 3 /\ Len(cgTargets) = 2 /\ pc = "grouped"

-----------------------------------------------------------------------------
(* C3 *)

SystemDefaultGeoApplies(lb) ==
    lb.isNil \/ lb.Geo.isNil \/ lb.Geo.DefaultGeo = DefaultGeo

\* C3: with the policy absent, its geo absent, or geo.defaultGeo equal to the
\* system default geo, every target of a GatewayTarget built without error has
\* the system default geo, whatever labels its cluster gateway carries.
C3_GeoShortCircuit ==
    (Succeeded /\ SystemDefaultGeoApplies(loadBalancing)) =>
        \A i \in 1..Len(Targets) : GetGeo(Targets[i]) = DefaultGeo

\* a policy that names the default geo itself, and a cluster gateway labelled
\* with another geo
C3_Witness ==
    /\ Succeeded
    /\ ~loadBalancing.isNil /\ ~loadBalancing.Geo.isNil
    /\ \E i \in 1..Len(Targets) :
          /\ LabelLBAttributeGeoCode \in DOMAIN Targets[i].ClusterGateway.Labels
          /\ Targets[i].ClusterGateway.Labels[LabelLBAttributeGeoCode] = "US"
          /\ GetGeo(Targets[i]) = DefaultGeo

-----------------------------------------------------------------------------
(* C4 *)

\* C4: with a geo.defaultGeo other than the system default geo, a target whose
\* cluster gateway carries the label kuadrant.io/lb-attribute-geo-code has the
\* label's value as its geo, and a target without the label has the policy's
\* defaultGeo.
C4_GeoLabelOverride ==
    (Succeeded /\ ~SystemDefaultGeoApplies(loadBalancing)) =>
        \A i \in 1..Len(Targets) :
            LET labels == Targets[i].ClusterGateway.Labels IN
            GetGeo(Targets[i]) =
                IF LabelLBAttributeGeoCode \in DOMAIN labels
                THEN labels[LabelLBAttributeGeoCode]
                ELSE loadBalancing.Geo.DefaultGeo

\* one target takes its label's geo and another the policy's
C4_Witness ==
    /\ Succeeded
    /\ ~SystemDefaultGeoApplies(loadBalancing)
    /\ \E i, j \in 1..Len(Targets) :
          /\ LabelLBAttributeGeoCode \in DOMAIN Targets[i].ClusterGateway.Labels
          /\ GetGeo(Targets[i]) = "US"
          /\ LabelLBAttributeGeoCode \notin DOMAIN Targets[j].ClusterGateway.Labels
          /\ GetGeo(Targets[j]) = "EU"

-----------------------------------------------------------------------------
(* C5 *)

\* the default of step 1 of the weight resolution
PolicyDefaultWeight(lb) ==
    IF ~lb.isNil /\ ~lb.Weighted.isNil THEN lb.Weighted.DefaultWeight ELSE DefaultWeight

\* C5: with well-formed overrides only, the weight of a target is the weight
\* of the first override, in source order, that its cluster gateway's labels
\* satisfy; without such an override it is the policy's weighted.defaultWeight
\* when the policy and its weighted part are present, else the system default
\* weight.
C5_FirstMatchWins ==
    (Succeeded /\ ~HasMalformed(loadBalancing)) =>
        \A i \in 1..Len(Targets) :
            LET custom == CustomOf(loadBalancing)
                matching == Matching(clusterGateways[i], custom)
            IN GetWeight(Targets[i]) =
                   IF matching # {}
                   THEN custom[Min(matching)].Weight
                   ELSE PolicyDefaultWeight(loadBalancing)

\* a cluster gateway that satisfies two overrides of different weights, and
\* another one that satisfies none
C5_Witness ==
    /\ Succeeded
    /\ ~HasMalformed(loadBalancing)
    /\ \E i, j \in 1..Len(Targets) :
          LET custom == CustomOf(loadBalancing) IN
          /\ Matching(clusterGateways[i], custom) = {1, 2}
          /\ custom[1].Weight # custom[2].Weight
          /\ GetWeight(Targets[i]) = custom[1].Weight
          /\ Matching(clusterGateways[j], custom) = {}
          /\ GetWeight(Targets[j]) = loadBalancing.Weighted.DefaultWeight

-----------------------------------------------------------------------------
(* C6 *)

\* C6: when NewGatewayTarget succeeds on n cluster gateways, the target
\* sequence has n elements and element i wraps the i-th cluster gateway (its
\* cluster name, namespace, name and labels).
C6_OneTargetPerInput ==
    Succeeded =>
        /\ Len(Targets) = Len(clusterGateways)
        /\ \A i \in 1..Len(clusterGateways) :
              Targets[i].ClusterGateway = clusterGateways[i]

\* three different cluster gateways
C6_Witness ==
    /\ Succeeded
    /\ Len(Targets) = 3
    /\ Cardinality({ clusterGateways[i].ClusterName : i \in 1..3 }) = 3

-----------------------------------------------------------------------------
(* C7 *)

\* the targets of geo g, in the order of the target sequence
TargetsOfGeo(g) == SelectSeq(Targets, LAMBDA t : GetGeo(t) = g)

\* C7: GroupTargetsByGeo partitions the target sequence: the buckets are keyed
\* by the geos of the targets, none is empty, and each holds exactly the
\* targets of its geo in the order of the target sequence, so that the bucket
\* lengths add up to the length of the sequence.
C7_GroupIsPartition ==
    (pc = "grouped") =>
        /\ DOMAIN geoTargets = { GetGeo(Targets[i]) : i \in 1..Len(Targets) }
        /\ \A g \in DOMAIN geoTargets :
              /\ Len(geoTargets[g]) > 0
              /\ geoTargets[g] = TargetsOfGeo(g)

\* two buckets, one of them with two different targets
C7_Witness ==
    /\ pc = "grouped"
    /\ Cardinality(DOMAIN geoTargets) = 2
    /\ \E g \in DOMAIN geoTargets :
          /\ Len(geoTargets[g]) = 2
          /\ geoTargets[g][1] # geoTargets[g][2]

-----------------------------------------------------------------------------
(* C8 *)

\* C8: with no cluster gateway, NewGatewayTarget returns no error and an empty
\* target sequence, whatever the policy is.
C8_EmptyListSucceeds ==
    (Returned /\ Len(clusterGateways) = 0) => (err = NoError /\ Targets = <<>>)

\* no cluster gateway, and a policy whose only override is malformed
C8_Witness ==
    /\ Returned
    /\ Len(clusterGateways) = 0
    /\ Len(CustomOf(loadBalancing)) = 1
    /\ HasMalformed(loadBalancing)

-----------------------------------------------------------------------------
(* C9 *)

-----------------------------------------------------------------------------
(* C10 *)

\* C10 as stated: for every string s and every length l, ToBase36HashLen(s, l)
\* does not fail and returns a string of exactly l characters.
C10_TotalForEveryLength ==
    (pc = "ToBase36HashLen") => (~ret.panic /\ Len(ret.val) = l)

\* C10 (amended): for every string s and every length l from 0 to the length
\* of ToBase36Hash(s), ToBase36HashLen(s, l) returns the first l characters of
\* ToBase36Hash(s), lower-case base-36 digits, and so a string of exactly l
\* characters; for any other l it panics. The 7 of GetShortCode is within
\* that range: both GetShortCode methods return, the GatewayTarget's a string
\* of exactly 7 characters.
C10_ExactLengthWithinHash ==
    /\ (pc = "ToBase36HashLen") =>
          LET hash == ToBase36Hash(s) IN
          IF 0 <= l /\ l <= Len(hash)
          THEN /\ ~ret.panic
               /\ Len(ret.val) = l
               /\ \A i \in 1..l :
                     ret.val[i] = hash[i] /\ \E d \in 1..36 : LowerDigits[d] = ret.val[i]
          ELSE ret.panic
    /\ (pc = "GetShortCode") => (~ret.panic /\ Len(ret.val) = 7)
    /\ (pc = "ClusterGetShortCode") =>
          (~ret.panic /\ Len(ret.val) = Len(clusterGateways[1].ClusterName) + 8)

\* the 7-character code of "myname", which is 28iywsw
C10_Witness ==
    /\ pc = "ToBase36HashLen"
    /\ s = <<"m", "y", "n", "a", "m", "e">>
    /\ l = 7
    /\ ret = [panic |-> FALSE, val |-> <<"2", "8", "i", "y", "w", "s", "w">>]

-----------------------------------------------------------------------------
(* C11 *)

\* a ClusterGatewayTarget whose Geo and Weight both point to a value
Resolved(t) == ~t.Geo.isNil /\ ~t.Weight.isNil

\* C11: geo and weight are never absent after construction. Every target
\* NewClusterGatewayTarget returned without error (the ones collected in
\* cgTargets), every target of the GatewayTarget NewGatewayTarget returned,
\* with an error or without, and every target GroupTargetsByGeo put in a
\* bucket has both Geo and Weight set, so that GetGeo and GetWeight read no
\* absent value.
C11_GeoAndWeightSet ==
    /\ \A i \in 1..Len(cgTargets) : Resolved(cgTargets[i])
    /\ Returned => \A i \in 1..Len(Targets) : Resolved(Targets[i])
    /\ (pc = "grouped") =>
          \A g \in DOMAIN geoTargets :
              \A i \in 1..Len(geoTargets[g]) : Resolved(geoTargets[g][i])

\* an error at the second cluster gateway: the first one was resolved by
\* NewClusterGatewayTarget, and the GatewayTarget returned with the error was
\* grouped
C11_Witness ==
    /\ Failed
    /\ pc = "grouped"
    /\ Len(clusterGateways) = 2
    /\ Len(cgTargets) = 1
    /\ Resolved(cgTargets[1])

\* a GatewayTarget built without error from three cluster gateways, grouped
C11_WitnessBuilt ==
    /\ Succeeded
    /\ pc = "grouped"
    /\ Len(Targets) = 3
    /\ Len(CustomOf(loadBalancing)) > 0

=============================================================================
